---------------------------- MODULE Spec2Model ----------------------------
(***************************************************************************)
(* Cooperative threads scheduler (src/src/coop_threads.c).                 *)
(*                                                                         *)
(* The scheduler context `sched' is modelled field by field.  A jmp_buf is *)
(* modelled by the position, on the main stack, of the coop_sched_service  *)
(* invocation whose frame it refers to: 0 is a zeroed jmp_buf, DANGLING a  *)
(* jmp_buf whose frame has been abandoned by a longjmp() below it.         *)
(* `frames' is the main stack: the live coop_sched_service() invocations,  *)
(* bottom first; a thread's own frame lies right above the invocation that *)
(* entered it.                                                             *)
(***************************************************************************)
EXTENDS Integers, Sequences, FiniteSets, TLC

VARIABLES
    sched,      \* coop_sched_ctx_t sched
    inited,     \* static bool inited of _sched_init()
    tick,       \* value returned by coop_tick_cb()
    pc,         \* who has control: "main", "sched", "idle_cb", "thread", "done", "fault"
    frames,     \* live coop_sched_service() invocations (caller of each)
    min_idle,   \* register min_idle of _system_idle() across coop_idle_cb()
    thr,        \* per slot: position of the thread routine and history
    ret,        \* value returned by the API call that has just returned
    nsched,     \* threads scheduled in the current session
    nops,       \* suspensions (yield, idle, wait) in the current session
    trace       \* slots given control, in order (recorded on request)

vars == <<sched, inited, tick, pc, frames, min_idle, thr, ret, nsched, nops, trace>>

---------------------------------------------------------------------------
(* Configuration and bounds *)

CONFIG_MAX_THREADS == 3

TickBits == 6

TickMod == 2 ^ TickBits

COOP_MAX_TICK == TickMod - 1

\* unsigned arithmetic wraps; 16 bits is the narrowest unsigned int
UINT_MOD == 2 ^ 16

MaxSched == CONFIG_MAX_THREADS

MaxPeriod == 1

MaxTime == MaxPeriod + 1

MaxOps == 2

NumSems == 2

RRYields == 5

Slots == 0 .. (CONFIG_MAX_THREADS - 1)

Sems == 0 .. (NumSems - 1)

Periods == 0 .. MaxPeriod

Ticks == 0 .. COOP_MAX_TICK

DANGLING == -1

---------------------------------------------------------------------------
(* Tick arithmetic *)

TickAdd(a, b) == (a + b) % TickMod

TickSub(a, b) == (a - b) % TickMod

IsTickOver(t, to) == TickSub(t, to) <= (COOP_MAX_TICK \div 2)

\* The tick counter is about to wrap when the program starts.
BootTick == COOP_MAX_TICK

Elapsed == TickSub(tick, BootTick)

---------------------------------------------------------------------------
(* Data *)

ZeroThrd ==
    [state |-> "EMPTY", depth |-> 0, idle_to |-> 0, switch_tick |-> 0,
     sem_id |-> 0, wait_to |-> 0, notif |-> 0, inf |-> 0,
     exe_ctx |-> 0, entry_ctx |-> 0]

ZeroSched ==
    [cur_thrd |-> 0, busy_n |-> 0, hole_n |-> 0, idle_n |-> 0, depth |-> 0,
     exe_ctx |-> 0, thrds |-> [i \in Slots |-> ZeroThrd]]

_IS_STARTED(state) == state \in {"RUN", "IDLE", "WAIT"}

NoThr == [susp |-> "none", wake |-> "none", nyield |-> 0]

NoRet == [op |-> "none"]

SetMax(S) == IF S = {} THEN 0 ELSE CHOOSE x \in S : \A y \in S : y <= x

SetMin(S) == CHOOSE x \in S : \A y \in S : x <= y

\* _sched_init() that leaves the cursor at the slot the memset gives it.
_sched_init_no_sentinel(s, ini, force) ==
    IF ~ini \/ force
    THEN [sched |-> ZeroSched, inited |-> TRUE]
    ELSE [sched |-> s, inited |-> ini]

_sched_init(s, ini, force) ==
    IF ~ini \/ force
    THEN [sched |-> [ZeroSched EXCEPT !.cur_thrd = UINT_MOD - 1], inited |-> TRUE]
    ELSE [sched |-> s, inited |-> ini]

\* A decrement that is forgotten.
DecForgotten(x, n) == x

Dec(x, n) == (x - n) % UINT_MOD

Inc(x) == (x + 1) % UINT_MOD

---------------------------------------------------------------------------
(* Main stack: non-local jumps *)

\* The frames above position p are abandoned: every jmp_buf saved in one of
\* them, or in a thread frame lying above invocation p, refers to nothing.
Abandon(s, p) ==
    [s EXCEPT
       !.exe_ctx = IF @ > p THEN DANGLING ELSE @,
       !.thrds = [i \in Slots |->
                    [s.thrds[i] EXCEPT
                       !.entry_ctx = IF @ > p THEN DANGLING ELSE @,
                       !.exe_ctx = IF @ >= p THEN DANGLING ELSE @]]]

\* longjmp() to a context saved by a coop_sched_service() invocation.
LongJmp(s, ctx) ==
    IF ctx \in 1 .. Len(frames)
    THEN /\ sched' = Abandon(s, ctx)
         /\ frames' = SubSeq(frames, 1, ctx)
         /\ pc' = "sched"
    ELSE /\ sched' = s
         /\ frames' = frames
         /\ pc' = "fault"

---------------------------------------------------------------------------
(* Scheduler routines *)

\* _mark_unwind_thrds() that frees the terminating thread only.
_mark_unwind_thrds_no_hole(s) ==
    LET cur == s.cur_thrd
        t1 == [s.thrds EXCEPT ![cur].state = "EMPTY"]
        depth == SetMax({t1[i].depth : i \in {j \in Slots : _IS_STARTED(t1[j].state)}})
    IN  [sched |-> [s EXCEPT !.thrds = t1,
                             !.busy_n = Dec(@, 1),
                             !.depth = depth],
         unwnd_thrd |-> cur]

\* _mark_unwind_thrds() that always unwinds to the terminating thread.
_mark_unwind_thrds_to_self(s) ==
    LET cur == s.cur_thrd
        t1 == [s.thrds EXCEPT ![cur].state = "EMPTY"]
        depth == SetMax({t1[i].depth : i \in {j \in Slots : _IS_STARTED(t1[j].state)}})
        freed == IF depth + 1 < s.depth
                 THEN {i \in Slots : t1[i].state = "HOLE" /\ depth + 1 <= t1[i].depth}
                 ELSE {}
    IN  [sched |-> [s EXCEPT
                      !.thrds = [i \in Slots |->
                                   IF i \in freed
                                   THEN [t1[i] EXCEPT !.state = "EMPTY"]
                                   ELSE t1[i]],
                      !.busy_n = Dec(@, 1 + Cardinality(freed)),
                      !.hole_n = Dec(@, Cardinality(freed)),
                      !.depth = depth],
         unwnd_thrd |-> cur]

\* _mark_unwind_thrds() that frees every hole, whatever its depth.
_mark_unwind_thrds_every_hole(s) ==
    LET cur == s.cur_thrd
        t1 == [s.thrds EXCEPT ![cur].state = "EMPTY"]
        depth == SetMax({t1[i].depth : i \in {j \in Slots : _IS_STARTED(t1[j].state)}})
        freed == {i \in Slots : t1[i].state = "HOLE"}
        tgt == {i \in freed : t1[i].depth = depth + 1}
    IN  [sched |-> [s EXCEPT
                      !.thrds = [i \in Slots |->
                                   IF i \in freed
                                   THEN [t1[i] EXCEPT !.state = "EMPTY"]
                                   ELSE t1[i]],
                      !.busy_n = Dec(@, 1 + Cardinality(freed)),
                      !.hole_n = Dec(@, Cardinality(freed)),
                      !.depth = depth],
         unwnd_thrd |-> IF tgt = {} THEN cur ELSE SetMax(tgt)]

\* _mark_unwind_thrds() that frees the holes without counting them out of
\* hole_n.
_mark_unwind_thrds_hole_n(s) ==
    LET cur == s.cur_thrd
        t1 == [s.thrds EXCEPT ![cur].state = "EMPTY"]
        depth == SetMax({t1[i].depth : i \in {j \in Slots : _IS_STARTED(t1[j].state)}})
        freed == IF depth + 1 < s.depth
                 THEN {i \in Slots : t1[i].state = "HOLE" /\ depth + 1 <= t1[i].depth}
                 ELSE {}
        tgt == {i \in freed : t1[i].depth = depth + 1}
    IN  [sched |-> [s EXCEPT
                      !.thrds = [i \in Slots |->
                                   IF i \in freed
                                   THEN [t1[i] EXCEPT !.state = "EMPTY"]
                                   ELSE t1[i]],
                      !.busy_n = Dec(@, 1 + Cardinality(freed)),
                      !.depth = depth],
         unwnd_thrd |-> IF tgt = {} THEN cur ELSE SetMax(tgt)]

_mark_unwind_thrds(s) ==
    LET cur == s.cur_thrd
        t1 == [s.thrds EXCEPT ![cur].state = "EMPTY"]
        depth == SetMax({t1[i].depth : i \in {j \in Slots : _IS_STARTED(t1[j].state)}})
        freed == IF depth + 1 < s.depth
                 THEN {i \in Slots : t1[i].state = "HOLE" /\ depth + 1 <= t1[i].depth}
                 ELSE {}
        tgt == {i \in freed : t1[i].depth = depth + 1}
    IN  [sched |-> [s EXCEPT
                      !.thrds = [i \in Slots |->
                                   IF i \in freed
                                   THEN [t1[i] EXCEPT !.state = "EMPTY"]
                                   ELSE t1[i]],
                      !.busy_n = Dec(@, 1 + Cardinality(freed)),
                      !.hole_n = Dec(@, Cardinality(freed)),
                      !.depth = depth],
         unwnd_thrd |-> IF tgt = {} THEN cur ELSE SetMax(tgt)]

IdleReady(s) ==
    s.idle_n > 0 /\ Dec(s.busy_n, s.hole_n) <= s.idle_n

\* A pass of _system_idle() that keeps the farthest wake-up time.
IdleScanFarthest(s, t) ==
    LET over == {i \in Slots : s.thrds[i].state = "IDLE"
                               /\ IsTickOver(t, s.thrds[i].idle_to)}
        rest == {i \in Slots : s.thrds[i].state = "IDLE"} \ over
    IN  [sched |-> [s EXCEPT
                      !.thrds = [i \in Slots |->
                                   IF i \in over
                                   THEN [s.thrds[i] EXCEPT !.state = "RUN"]
                                   ELSE s.thrds[i]],
                      !.idle_n = Dec(@, Cardinality(over))],
         min_idle |-> IF rest = {} THEN COOP_MAX_TICK
                      ELSE SetMax({TickSub(s.thrds[i].idle_to, t) : i \in rest})]

\* One pass of the for loop of _system_idle() with cur_tick sampled as t.
IdleScan(s, t) ==
    LET over == {i \in Slots : s.thrds[i].state = "IDLE"
                               /\ IsTickOver(t, s.thrds[i].idle_to)}
        rest == {i \in Slots : s.thrds[i].state = "IDLE"} \ over
    IN  [sched |-> [s EXCEPT
                      !.thrds = [i \in Slots |->
                                   IF i \in over
                                   THEN [s.thrds[i] EXCEPT !.state = "RUN"]
                                   ELSE s.thrds[i]],
                      !.idle_n = Dec(@, Cardinality(over))],
         min_idle |-> SetMin({COOP_MAX_TICK}
                             \cup {TickSub(s.thrds[i].idle_to, t) : i \in rest})]

\* A cursor that wraps one slot before the end of the pool.
NextThrdShort(cur) == Inc(cur) % (CONFIG_MAX_THREADS - 1)

\* A cursor that advances by two slots.
NextThrdSkipping(cur) == (Inc(cur) + 1) % CONFIG_MAX_THREADS

NextThrd(cur) == Inc(cur) % CONFIG_MAX_THREADS

\* An IDLE slot taken for ready whatever the tick.
IdleElapsedAlways(t, idle_to) == TRUE

IdleElapsed(t, idle_to) == IsTickOver(t, idle_to)

\* A WAIT slot timed out on wait_to alone, the infinite flag ignored.
WaitElapsedNoInf(t, th) == IsTickOver(t, th.wait_to)

WaitElapsed(t, th) == ~(th.inf = 1 \/ ~IsTickOver(t, th.wait_to))

\* The switch with a NEW thread given the depth the main stack had before it
\* was entered.
SwitchStaleDepth(s, t, top) ==
    LET c == s.cur_thrd
        th == s.thrds[c]
        idle == th.state = "IDLE" /\ IsTickOver(t, th.idle_to)
        wait == th.state = "WAIT" /\ ~(th.inf = 1 \/ ~IsTickOver(t, th.wait_to))
        s1 == IF idle THEN [s EXCEPT !.thrds[c].state = "RUN", !.idle_n = Dec(@, 1)]
              ELSE IF wait THEN [s EXCEPT !.thrds[c].state = "RUN"]
              ELSE s
    IN  IF s1.thrds[c].state = "RUN"
        THEN [sched |-> [s1 EXCEPT !.exe_ctx = top, !.thrds[c].switch_tick = t],
              to |-> "run", timedout |-> wait]
        ELSE IF th.state = "NEW"
        THEN [sched |-> [s EXCEPT !.thrds[c].entry_ctx = top,
                                  !.depth = Inc(@),
                                  !.thrds[c].depth = s.depth,
                                  !.thrds[c].switch_tick = t],
              to |-> "new", timedout |-> FALSE]
        ELSE [sched |-> s, to |-> "skip", timedout |-> FALSE]

\* A switch whose case RUN does not save sched.exe_ctx before the jump to
\* the thread.
SwitchNoSetjmp(s, t, top) ==
    LET c == s.cur_thrd
        th == s.thrds[c]
        idle == th.state = "IDLE" /\ IdleElapsed(t, th.idle_to)
        wait == th.state = "WAIT" /\ WaitElapsed(t, th)
        s1 == IF idle THEN [s EXCEPT !.thrds[c].state = "RUN", !.idle_n = Dec(@, 1)]
              ELSE IF wait THEN [s EXCEPT !.thrds[c].state = "RUN"]
              ELSE s
    IN  IF s1.thrds[c].state = "RUN"
        THEN [sched |-> [s1 EXCEPT !.thrds[c].switch_tick = t],
              to |-> "run", timedout |-> wait]
        ELSE IF th.state = "NEW"
        THEN [sched |-> [s EXCEPT !.thrds[c].entry_ctx = top,
                                  !.depth = Inc(@),
                                  !.thrds[c].depth = Inc(s.depth),
                                  !.thrds[c].switch_tick = t],
              to |-> "new", timedout |-> FALSE]
        ELSE [sched |-> s, to |-> "skip", timedout |-> FALSE]

\* The switch of coop_sched_service() up to the control transfer, for the
\* slot s.cur_thrd at tick t with `top' the position of the running invocation.
\* to: "skip" (break), "run" (longjmp to the thread), "new" (call of proc).
Switch(s, t, top) ==
    LET c == s.cur_thrd
        th == s.thrds[c]
        idle == th.state = "IDLE" /\ IdleElapsed(t, th.idle_to)
        wait == th.state = "WAIT" /\ WaitElapsed(t, th)
        s1 == IF idle THEN [s EXCEPT !.thrds[c].state = "RUN", !.idle_n = Dec(@, 1)]
              ELSE IF wait THEN [s EXCEPT !.thrds[c].state = "RUN"]
              ELSE s
    IN  IF s1.thrds[c].state = "RUN"
        THEN [sched |-> [s1 EXCEPT !.exe_ctx = top, !.thrds[c].switch_tick = t],
              to |-> "run", timedout |-> wait]
        ELSE IF th.state = "NEW"
        THEN [sched |-> [s EXCEPT !.thrds[c].entry_ctx = top,
                                  !.depth = Inc(@),
                                  !.thrds[c].depth = Inc(s.depth),
                                  !.thrds[c].switch_tick = t],
              to |-> "new", timedout |-> FALSE]
        ELSE [sched |-> s, to |-> "skip", timedout |-> FALSE]

coop_wait_ret(s) == s.thrds[s.cur_thrd].notif # 0

\* for (i = 0; i < CONFIG_MAX_THREADS; i++) if (state == EMPTY) { ...; break; }
\* The result is the slot taken, CONFIG_MAX_THREADS when the loop runs out.
RECURSIVE FirstEmpty(_, _)
FirstEmpty(s, i) ==
    IF i >= CONFIG_MAX_THREADS THEN i
    ELSE IF s.thrds[i].state = "EMPTY" THEN i
    ELSE FirstEmpty(s, i + 1)

\* A pool limit that does not count the HOLE slots.
PoolFullLive(s) == Dec(s.busy_n, s.hole_n) >= CONFIG_MAX_THREADS

PoolFull(s) == s.busy_n >= CONFIG_MAX_THREADS

coop_sched_thread(s, ini, proc) ==
    IF ~proc
    THEN [sched |-> s, inited |-> ini, status |-> "COOP_INV_ARG", slot |-> -1]
    ELSE IF PoolFull(s)
    THEN [sched |-> s, inited |-> ini, status |-> "COOP_ERR_LIMIT", slot |-> -1]
    ELSE LET r == _sched_init(s, ini, FALSE)
             i == FirstEmpty(r.sched, 0)
         IN  IF i >= CONFIG_MAX_THREADS
             THEN [sched |-> r.sched, inited |-> r.inited,
                   status |-> "COOP_SUCCESS", slot |-> -1]
             ELSE [sched |-> [r.sched EXCEPT
                                !.thrds[i].state = "NEW",
                                !.thrds[i].depth = 0,
                                !.thrds[i].exe_ctx = 0,
                                !.thrds[i].entry_ctx = 0,
                                !.busy_n = Inc(@)],
                   inited |-> r.inited, status |-> "COOP_SUCCESS", slot |-> i]

\* _yield() up to its control transfer: recurse is TRUE for the recursive
\* coop_sched_service() call, FALSE for longjmp(sched.exe_ctx).
_yield(s, new_state) ==
    LET c == s.cur_thrd
    IN  [sched |-> [s EXCEPT !.thrds[c].state = new_state,
                             !.thrds[c].exe_ctx = s.thrds[c].entry_ctx],
         recurse |-> s.thrds[c].state = "NEW"]

\* coop_idle() whose wake-up tick is not reduced to the width of a tick.
coop_idle_unwrapped(s, t, period) ==
    IF period > 0
    THEN _yield([s EXCEPT !.idle_n = Inc(@),
                          !.thrds[s.cur_thrd].idle_to = t + period],
                "IDLE")
    ELSE _yield(s, "RUN")

coop_idle(s, t, period) ==
    IF period > 0
    THEN _yield([s EXCEPT !.idle_n = Inc(@),
                          !.thrds[s.cur_thrd].idle_to = TickAdd(t, period)],
                "IDLE")
    ELSE _yield(s, "RUN")

coop_yield_after(t, after) == IsTickOver(t, after)

\* coop_wait() that keeps the notified flag of an earlier wait.
coop_wait_keeps_notif(s, t, sem_id, timeout) ==
    LET c == s.cur_thrd
    IN  _yield([s EXCEPT
                  !.thrds[c].sem_id = sem_id,
                  !.thrds[c].wait_to = IF timeout # 0 THEN TickAdd(t, timeout) ELSE 0,
                  !.thrds[c].inf = IF timeout # 0 THEN 0 ELSE 1],
               "WAIT")

coop_wait(s, t, sem_id, timeout) ==
    LET c == s.cur_thrd
    IN  _yield([s EXCEPT
                  !.thrds[c].sem_id = sem_id,
                  !.thrds[c].notif = 0,
                  !.thrds[c].wait_to = IF timeout # 0 THEN TickAdd(t, timeout) ELSE 0,
                  !.thrds[c].inf = IF timeout # 0 THEN 0 ELSE 1],
               "WAIT")

\* A match on the semaphore alone, the state of the slot ignored.
IsWaiterAnyState(th, sem_id) == th.sem_id = sem_id

IsWaiter(th, sem_id) == th.state = "WAIT" /\ th.sem_id = sem_id

Notify(th) == [th EXCEPT !.notif = 1, !.state = "RUN"]

\* The loop of coop_notify() without its break.
RECURSIVE NotifyOn(_, _, _)
NotifyOn(s, sem_id, i) ==
    IF i >= CONFIG_MAX_THREADS THEN s
    ELSE IF s.thrds[i].state = "WAIT" /\ s.thrds[i].sem_id = sem_id
    THEN NotifyOn([s EXCEPT !.thrds[i].notif = 1, !.thrds[i].state = "RUN"],
                  sem_id, i + 1)
    ELSE NotifyOn(s, sem_id, i + 1)

\* for (i = 0; ...) if (WAIT on sem_id) { notif = 1; state = RUN; break; }
RECURSIVE NotifyFrom(_, _, _)
NotifyFrom(s, sem_id, i) ==
    IF i >= CONFIG_MAX_THREADS THEN s
    ELSE IF IsWaiter(s.thrds[i], sem_id)
    THEN [s EXCEPT !.thrds[i] = Notify(@)]
    ELSE NotifyFrom(s, sem_id, i + 1)

coop_notify(s, sem_id) == NotifyFrom(s, sem_id, 0)

\* for (i = 0; ...) if (WAIT on sem_id) { notif = 1; state = RUN; }
RECURSIVE NotifyAllFrom(_, _, _)
NotifyAllFrom(s, sem_id, i) ==
    IF i >= CONFIG_MAX_THREADS THEN s
    ELSE IF IsWaiter(s.thrds[i], sem_id)
    THEN NotifyAllFrom([s EXCEPT !.thrds[i] = Notify(@)], sem_id, i + 1)
    ELSE NotifyAllFrom(s, sem_id, i + 1)

coop_notify_all(s, sem_id) == NotifyAllFrom(s, sem_id, 0)

Init ==
    /\ sched = ZeroSched
    /\ inited = FALSE
    /\ tick = BootTick
    /\ pc = "main"
    /\ frames = << >>
    /\ min_idle = 0
    /\ thr = [i \in Slots |-> NoThr]
    /\ ret = NoRet
    /\ nsched = 0
    /\ nops = 0
    /\ trace = << >>

---------------------------------------------------------------------------
(* Actions *)

Log(on, c) == IF on THEN Append(trace, c) ELSE trace

\* The rest of a coop_sched_service() iteration for the state s reached after
\* the advance of cur_thrd: _system_idle() up to coop_idle_cb(), or the switch
\* and the control transfer it ends with.
Service(s, t, log) ==
    LET scan == IdleScan(s, t)
        s1 == IF IdleReady(s) THEN scan.sched ELSE s
        sw == Switch(s1, t, Len(frames))
        c == s1.cur_thrd
    IN  IF IdleReady(s) /\ IdleReady(s1)
        THEN /\ sched' = s1
             /\ min_idle' = scan.min_idle
             /\ pc' = "idle_cb"
             /\ ret' = NoRet
             /\ UNCHANGED <<frames, thr, trace>>
        ELSE /\ min_idle' = 0
             /\ frames' = frames
             /\ sched' = sw.sched
             /\ IF sw.to = "skip"
                THEN /\ pc' = "sched"
                     /\ ret' = NoRet
                     /\ UNCHANGED <<thr, trace>>
                ELSE IF sw.to = "run" /\ sw.sched.thrds[c].exe_ctx < 1
                THEN /\ pc' = "fault"
                     /\ ret' = NoRet
                     /\ UNCHANGED <<thr, trace>>
                ELSE /\ pc' = "thread"
                     /\ trace' = Log(log, c)
                     /\ thr' = [thr EXCEPT ![c].susp = "none", ![c].wake = "none"]
                     /\ ret' = IF thr[c].susp = "wait"
                               THEN [op |-> "wait", slot |-> c,
                                     val |-> coop_wait_ret(sw.sched),
                                     wake |-> IF sw.timedout THEN "timeout"
                                              ELSE thr[c].wake]
                               ELSE IF thr[c].susp = "idle"
                               THEN [op |-> "idle", slot |-> c]
                               ELSE NoRet

\* while (sched.busy_n > 0) { sched.cur_thrd = ...; _system_idle(); switch ... }
ServiceIter(log) ==
    /\ pc = "sched"
    /\ sched.busy_n > 0
    /\ Service([sched EXCEPT !.cur_thrd = NextThrd(@)], tick, log)
    /\ UNCHANGED <<inited, tick, nsched, nops>>

\* coop_idle_cb(min_idle) returns after d ticks; _system_idle() goes on.
IdleCb(d, log) ==
    /\ pc = "idle_cb"
    /\ d <= min_idle
    /\ Elapsed + d <= MaxTime
    /\ tick' = TickAdd(tick, d)
    /\ Service(sched, tick', log)
    /\ UNCHANGED <<inited, nsched, nops>>

\* The loop of coop_sched_service() ends: _sched_init(true) and return.
ServiceReturn ==
    /\ pc = "sched"
    /\ sched.busy_n = 0
    /\ sched' = _sched_init(sched, inited, TRUE).sched
    /\ inited' = _sched_init(sched, inited, TRUE).inited
    /\ frames' = SubSeq(frames, 1, Len(frames) - 1)
    /\ pc' = IF Len(frames) = 1 THEN "done" ELSE "fault"
    /\ ret' = NoRet
    /\ min_idle' = 0
    /\ UNCHANGED <<tick, thr, nsched, nops, trace>>

Schedule(proc) ==
    LET r == coop_sched_thread(sched, inited, proc)
        base == IF pc = "done" THEN 0 ELSE nsched
    IN  /\ r.slot \in Slots => base < MaxSched
        /\ sched' = r.sched
        /\ inited' = r.inited
        /\ ret' = [op |-> "schedule", val |-> r.status, slot |-> r.slot,
                   proc |-> proc]
        /\ thr' = IF r.slot \in Slots THEN [thr EXCEPT ![r.slot] = NoThr] ELSE thr
        /\ nsched' = IF r.slot \in Slots THEN base + 1 ELSE base
        /\ trace' = IF pc = "done" THEN << >> ELSE trace
        /\ nops' = IF pc = "done" THEN 0 ELSE nops
        /\ UNCHANGED <<tick, frames, min_idle>>

\* coop_sched_thread() called by the main program, outside coop_sched_service().
MainSchedule(proc) ==
    /\ pc \in {"main", "done"}
    /\ pc' = "main"
    /\ Schedule(proc)

\* coop_sched_thread() called by the running thread.
ThreadSchedule(proc) ==
    /\ pc = "thread"
    /\ pc' = pc
    /\ Schedule(proc)

\* The main program calls coop_sched_service().
ServiceStart ==
    /\ pc \in {"main", "done"}
    /\ pc' = "sched"
    /\ frames' = << -1 >>
    /\ ret' = NoRet
    /\ nsched' = IF pc = "done" THEN 0 ELSE nsched
    /\ trace' = IF pc = "done" THEN << >> ELSE trace
    /\ nops' = IF pc = "done" THEN 0 ELSE nops
    /\ UNCHANGED <<sched, inited, tick, min_idle, thr>>

\* The control transfer that ends _yield(): y is the result of _yield().
\* A scripted run (rr) counts the suspensions of each thread, any other run
\* those of the session.
YieldTo(y, kind, rr) ==
    LET c == sched.cur_thrd
    IN  /\ IF rr THEN thr[c].nyield < RRYields ELSE nops < MaxOps
        /\ thr' = [thr EXCEPT ![c].susp = kind,
                              ![c].nyield = IF rr THEN @ + 1 ELSE @]
        /\ nops' = IF rr THEN nops ELSE nops + 1
        /\ IF y.recurse
           THEN /\ sched' = y.sched
                /\ frames' = Append(frames, c)
                /\ pc' = "sched"
           ELSE LongJmp(y.sched, y.sched.exe_ctx)
        /\ UNCHANGED <<inited, tick, min_idle, nsched, trace>>

ThreadIdle(period, rr) ==
    /\ pc = "thread"
    /\ ret' = NoRet
    /\ YieldTo(coop_idle(sched, tick, period), IF period > 0 THEN "idle" ELSE "none", rr)

ThreadYieldAfter(after, rr) ==
    /\ pc = "thread"
    /\ ret' = [op |-> "yield_after", val |-> coop_yield_after(tick, after),
               after |-> after]
    /\ IF coop_yield_after(tick, after)
       THEN YieldTo(_yield(sched, "RUN"), "none", rr)
       ELSE UNCHANGED <<sched, inited, tick, pc, frames, min_idle, thr,
                        nsched, nops, trace>>

ThreadWait(sem_id, timeout, rr) ==
    /\ pc = "thread"
    /\ ret' = NoRet
    /\ YieldTo(coop_wait(sched, tick, sem_id, timeout), "wait", rr)

Notified(s1, s2) ==
    [i \in Slots |->
       IF s1.thrds[i].state = "WAIT" /\ s2.thrds[i].state # "WAIT"
       THEN [thr[i] EXCEPT !.wake = "notify"]
       ELSE thr[i]]

ThreadNotify(sem_id) ==
    /\ pc = "thread"
    /\ sched' = coop_notify(sched, sem_id)
    /\ thr' = Notified(sched, sched')
    /\ ret' = [op |-> "notify", sem_id |-> sem_id]
    /\ UNCHANGED <<inited, tick, pc, frames, min_idle, nsched, nops, trace>>

ThreadNotifyAll(sem_id) ==
    /\ pc = "thread"
    /\ sched' = coop_notify_all(sched, sem_id)
    /\ thr' = Notified(sched, sched')
    /\ ret' = [op |-> "notify_all", sem_id |-> sem_id]
    /\ UNCHANGED <<inited, tick, pc, frames, min_idle, nsched, nops, trace>>

\* A termination branch without the test for a thread below the top of the
\* stack: every return unwinds.
ThreadReturnUnwinds ==
    LET c == sched.cur_thrd
        m == _mark_unwind_thrds(sched)
    IN  /\ pc = "thread"
        /\ LongJmp(m.sched, m.sched.thrds[m.unwnd_thrd].entry_ctx)
        /\ ret' = [op |-> "return", slot |-> c,
                   freed |-> {i \in Slots : /\ sched.thrds[i].state # "EMPTY"
                                            /\ sched'.thrds[i].state = "EMPTY"}]
        /\ thr' = [i \in Slots |->
                     IF sched'.thrds[i].state \in {"EMPTY", "HOLE"} THEN NoThr ELSE thr[i]]
        /\ UNCHANGED <<inited, tick, min_idle, nsched, nops, trace>>

\* A termination branch that frees the frames but goes back to the loop of
\* the invocation that ran the thread instead of unwinding.
ThreadReturnNoUnwind ==
    LET c == sched.cur_thrd
        m == _mark_unwind_thrds(sched)
    IN  /\ pc = "thread"
        /\ IF sched.thrds[c].depth < sched.depth
           THEN LongJmp([sched EXCEPT !.thrds[c].state = "HOLE", !.hole_n = Inc(@)],
                        sched.exe_ctx)
           ELSE LongJmp(m.sched, sched.exe_ctx)
        /\ ret' = [op |-> "return", slot |-> c,
                   freed |-> {i \in Slots : /\ sched.thrds[i].state # "EMPTY"
                                            /\ sched'.thrds[i].state = "EMPTY"}]
        /\ thr' = [i \in Slots |->
                     IF sched'.thrds[i].state \in {"EMPTY", "HOLE"} THEN NoThr ELSE thr[i]]
        /\ UNCHANGED <<inited, tick, min_idle, nsched, nops, trace>>

\* The thread routine returns into coop_sched_service(): termination branch.
ThreadReturn ==
    LET c == sched.cur_thrd
        m == _mark_unwind_thrds(sched)
    IN  /\ pc = "thread"
        /\ IF sched.thrds[c].depth < sched.depth
           THEN LongJmp([sched EXCEPT !.thrds[c].state = "HOLE", !.hole_n = Inc(@)],
                        sched.exe_ctx)
           ELSE LongJmp(m.sched, m.sched.thrds[m.unwnd_thrd].entry_ctx)
        /\ ret' = [op |-> "return", slot |-> c,
                   freed |-> {i \in Slots : /\ sched.thrds[i].state # "EMPTY"
                                            /\ sched'.thrds[i].state = "EMPTY"}]
        /\ thr' = [i \in Slots |->
                     IF sched'.thrds[i].state \in {"EMPTY", "HOLE"} THEN NoThr ELSE thr[i]]
        /\ UNCHANGED <<inited, tick, min_idle, nsched, nops, trace>>

\* Time passes while a thread runs, or while the scheduler spins with no
\* thread ready to run.
Tick ==
    /\ \/ pc = "thread"
       \/ pc = "sched" /\ \A i \in Slots : sched.thrds[i].state \notin {"NEW", "RUN"}
    /\ Elapsed < MaxTime
    /\ tick' = TickAdd(tick, 1)
    /\ ret' = NoRet
    /\ UNCHANGED <<sched, inited, pc, frames, min_idle, thr, nsched, nops, trace>>

Next ==
    \/ \E proc \in BOOLEAN : MainSchedule(proc)
    \/ ServiceStart
    \/ ServiceIter(FALSE)
    \/ \E d \in 0 .. MaxTime : IdleCb(d, FALSE)
    \/ ServiceReturn
    \/ \E proc \in BOOLEAN : ThreadSchedule(proc)
    \/ \E period \in Periods : ThreadIdle(period, FALSE)
    \/ \E after \in Periods : ThreadYieldAfter(after, FALSE)
    \/ \E sem_id \in Sems, timeout \in Periods : ThreadWait(sem_id, timeout, FALSE)
    \/ \E sem_id \in Sems : ThreadNotify(sem_id)
    \/ \E sem_id \in Sems : ThreadNotifyAll(sem_id)
    \/ ThreadReturn
    \/ Tick

Spec == Init /\ [][Next]_vars

---------------------------------------------------------------------------
(* Threads whose routine returns at once: the main program fills the pool,
   calls coop_sched_service(), and every thread returns when first run.  The
   program keeps running: the service loop, a thread routine and the return
   of the service are never stopped for ever while they can go on. *)

NextR1 ==
    \/ \E proc \in BOOLEAN : MainSchedule(proc)
    \/ ServiceStart
    \/ ServiceIter(FALSE)
    \/ ThreadReturn
    \/ ServiceReturn
    \/ Tick

SpecR1 ==
    /\ Init
    /\ [][NextR1]_vars
    /\ WF_vars(ServiceIter(FALSE))
    /\ WF_vars(ThreadReturn)
    /\ WF_vars(ServiceReturn)

---------------------------------------------------------------------------
(* Threads that are always ready: a thread only yields (coop_idle(0)), at most
   RRYields times, or returns; trace records the slot of every control
   transfer to a thread. *)

NextRR ==
    \/ MainSchedule(TRUE)
    \/ ServiceStart
    \/ ServiceIter(TRUE)
    \/ ThreadIdle(0, TRUE)
    \/ ThreadReturn
    \/ ServiceReturn

SpecRR == Init /\ [][NextRR]_vars

---------------------------------------------------------------------------
(* Properties *)

NoneThrd == UINT_MOD - 1

AllEmpty == \A i \in Slots : sched.thrds[i].state = "EMPTY"

\* C1: whenever the outermost coop_sched_service() has returned, every slot
\* of the pool is EMPTY, the counters busy_n, hole_n, idle_n and depth are 0,
\* and cur_thrd holds the "none" sentinel, from which the next session starts
\* dispatching at slot 0.
C1_ServiceReturnsDrained ==
    pc = "done" =>
        /\ AllEmpty
        /\ sched.busy_n = 0
        /\ sched.hole_n = 0
        /\ sched.idle_n = 0
        /\ sched.depth = 0
        /\ sched.cur_thrd = NoneThrd
        /\ NextThrd(sched.cur_thrd) = 0
        /\ frames = << >>

\* The service has returned after three threads ran and suspended themselves.
C1_Witness ==
    /\ pc = "done"
    /\ nsched = CONFIG_MAX_THREADS
    /\ nops = MaxOps

\* C2: with the pool filled by threads whose routine returns at once, a call
\* of coop_sched_service() leads to its return, with every slot EMPTY and
\* busy_n = 0.
C2_ImmediateThreadsTerminate ==
    (pc = "sched") ~> (pc = "done" /\ AllEmpty /\ sched.busy_n = 0)

\* The service has returned after CONFIG_MAX_THREADS threads were scheduled.
C2_Witness ==
    /\ pc = "done"
    /\ nsched = CONFIG_MAX_THREADS
    /\ AllEmpty

RECURSIVE Count(_, _)
Count(sq, x) ==
    IF sq = << >> THEN 0
    ELSE (IF sq[1] = x THEN 1 ELSE 0) + Count(SubSeq(sq, 2, Len(sq)), x)

Ready(s, i) == s.thrds[i].state \in {"NEW", "RUN"}

\* The first ready slot met when probing k, k+1, ... cyclically.
RECURSIVE ProbeFrom(_, _, _)
ProbeFrom(s, k, n) ==
    IF n = 0 THEN k
    ELSE IF Ready(s, k % CONFIG_MAX_THREADS) THEN k % CONFIG_MAX_THREADS
    ELSE ProbeFrom(s, k + 1, n - 1)

Alternation(n) == [k \in 1 .. n |-> (k - 1) % 2]

\* A dispatcher step advances the cursor by one slot, wrapping at the end.
C3_CursorStep ==
    (pc = "sched" /\ pc' \in {"sched", "thread", "idle_cb"} /\ frames' = frames)
        => sched'.cur_thrd = IF sched.cur_thrd = NoneThrd THEN 0
                             ELSE (sched.cur_thrd + 1) % CONFIG_MAX_THREADS

\* The thread given control is the first ready one after the thread that ran
\* before it.
C3_NextReady ==
    (Len(trace') = Len(trace) + 1 /\ trace # << >>)
        => trace'[Len(trace')] = ProbeFrom(sched, trace[Len(trace)] + 1, CONFIG_MAX_THREADS)

\* Threads A, B, C scheduled in this order first run in this order.
C3_ThreeInOrder ==
    (nsched = CONFIG_MAX_THREADS /\ Len(trace) >= CONFIG_MAX_THREADS)
        => SubSeq(trace, 1, CONFIG_MAX_THREADS) = [k \in 1 .. CONFIG_MAX_THREADS |-> k - 1]

\* Two threads that yield the same number of times run in strict alternation.
C3_TwoAlternate ==
    (pc = "done" /\ nsched = 2 /\ Count(trace, 0) = Count(trace, 1))
        => trace = Alternation(Len(trace))

\* C3: among always-ready threads control passes in round-robin order: the
\* cursor cur_thrd advances by exactly one slot, modulo CONFIG_MAX_THREADS, on
\* every dispatcher step, so each thread given control is the next ready one
\* after the previous; three threads scheduled A, B, C first run as A, B, C;
\* two threads yielding equally often alternate A, B, A, B, ...
C3_RoundRobin ==
    /\ [][C3_CursorStep /\ C3_NextReady]_vars
    /\ [](C3_ThreeInOrder /\ C3_TwoAlternate)

\* Two threads each yielded RRYields times and the service returned.
C3_Witness ==
    /\ pc = "done"
    /\ nsched = 2
    /\ trace = Alternation(2 * (RRYields + 1))

\* C4: coop_wait() returns true exactly when the waiter was woken by a
\* notification and false exactly when its timeout expired, whatever the path
\* (dispatcher promotion, system-idle promotion, earlier notifications).
C4_WaitResult ==
    ret.op = "wait" =>
        /\ ret.val <=> ret.wake = "notify"
        /\ ~ret.val <=> ret.wake = "timeout"

\* A timed wait returned true although its timeout had passed by then, and a
\* wait of the same session had returned before.
C4_Witness ==
    /\ ret.op = "wait"
    /\ ret.val
    /\ sched.thrds[ret.slot].inf = 0
    /\ IsTickOver(tick, sched.thrds[ret.slot].wait_to)
    /\ nops = MaxOps

Matching(sem_id) ==
    {i \in Slots : sched.thrds[i].state = "WAIT" /\ sched.thrds[i].sem_id = sem_id}

Woken(i) ==
    sched'.thrds[i] = [sched.thrds[i] EXCEPT !.state = "RUN", !.notif = 1]

Untouched(i) == sched'.thrds[i] = sched.thrds[i]

SameCounters ==
    /\ sched'.cur_thrd = sched.cur_thrd
    /\ sched'.busy_n = sched.busy_n
    /\ sched'.hole_n = sched.hole_n
    /\ sched'.idle_n = sched.idle_n
    /\ sched'.depth = sched.depth
    /\ sched'.exe_ctx = sched.exe_ctx

C5_NotifyStep ==
    ret'.op = "notify" =>
        /\ SameCounters
        /\ \A i \in Slots :
             IF i \in Matching(ret'.sem_id)
                /\ \A j \in Matching(ret'.sem_id) : i <= j
             THEN Woken(i)
             ELSE Untouched(i)

C5_NotifyAllStep ==
    ret'.op = "notify_all" =>
        /\ SameCounters
        /\ \A i \in Slots :
             IF i \in Matching(ret'.sem_id) THEN Woken(i) ELSE Untouched(i)

\* C5: coop_notify(sem) wakes exactly the lowest-index slot in WAIT on sem
\* (state RUN, notified flag set) and coop_notify_all(sem) wakes every such
\* slot; every other slot is unchanged, also one that waits on another
\* semaphore or holds sem as a stale id without being in WAIT.
C5_NotifyWakes == [][C5_NotifyStep /\ C5_NotifyAllStep]_vars

\* coop_notify() has woken one waiter and left a later waiter on the same
\* semaphore waiting, next to a slot not in WAIT with the same stale id.
C5_Witness ==
    /\ ret.op = "notify"
    /\ \E i, j, k \in Slots :
         /\ i < j
         /\ thr[i].wake = "notify"
         /\ sched.thrds[i].state = "RUN"
         /\ sched.thrds[i].sem_id = ret.sem_id
         /\ sched.thrds[j].state = "WAIT"
         /\ sched.thrds[j].sem_id = ret.sem_id
         /\ sched.thrds[k].state \in {"NEW", "RUN"}
         /\ thr[k].wake = "none"
         /\ sched.thrds[k].sem_id = ret.sem_id
         /\ sched.thrds[k].notif = 0

C6_NoWaiterStep ==
    (ret'.op \in {"notify", "notify_all"} /\ Matching(ret'.sem_id) = {})
        => sched' = sched

C6_WaitStartsClear ==
    \A i \in Slots :
        (sched.thrds[i].state # "WAIT" /\ sched'.thrds[i].state = "WAIT")
            => sched'.thrds[i].notif = 0

C6_InfiniteWaitStep ==
    \A i \in Slots :
        (/\ sched.thrds[i].state = "WAIT"
         /\ sched.thrds[i].inf = 1
         /\ sched'.thrds[i].state # "WAIT")
            => /\ ret'.op \in {"notify", "notify_all"}
               /\ ret'.sem_id = sched.thrds[i].sem_id

\* C6: notifications are not queued: a notification issued while no thread
\* waits on the semaphore changes nothing, a wait starts with no pending
\* notification, and a thread in coop_wait(sem, 0) leaves WAIT only by a
\* notification of sem issued after it entered WAIT.
C6_NotQueued ==
    [][C6_NoWaiterStep /\ C6_WaitStartsClear /\ C6_InfiniteWaitStep]_vars

\* A notification was issued with no waiter on its semaphore, nobody was
\* woken, and a thread waiting for ever on another semaphore still waits.
C6_Witness ==
    /\ ret.op \in {"notify", "notify_all"}
    /\ \A i \in Slots : ~IsWaiter(sched.thrds[i], ret.sem_id)
    /\ \A i \in Slots : thr[i].wake = "none"
    /\ \E i \in Slots : /\ sched.thrds[i].state = "WAIT"
                        /\ sched.thrds[i].inf = 1
                        /\ sched.thrds[i].sem_id # ret.sem_id

EmptySlots == {i \in Slots : sched.thrds[i].state = "EMPTY"}

\* The pool as coop_sched_thread() leaves it when it takes slot i.
Taken(i) ==
    /\ sched'.thrds[i].state = "NEW"
    /\ sched'.thrds[i].depth = 0
    /\ \A j \in Slots \ {i} : sched'.thrds[j] = sched.thrds[j]
    /\ sched'.busy_n = sched.busy_n + 1
    /\ sched'.hole_n = sched.hole_n
    /\ sched'.idle_n = sched.idle_n
    /\ sched'.depth = sched.depth

C7_ScheduleStep ==
    ret'.op = "schedule" =>
        IF ~ret'.proc
        THEN ret'.val = "COOP_INV_ARG" /\ sched' = sched
        ELSE IF EmptySlots = {}
        THEN ret'.val = "COOP_ERR_LIMIT" /\ sched' = sched
        ELSE /\ ret'.val = "COOP_SUCCESS"
             /\ ret'.slot \in EmptySlots
             /\ \A j \in EmptySlots : ret'.slot <= j
             /\ Taken(ret'.slot)

\* C7: coop_sched_thread() with no routine returns COOP_INV_ARG and with no
\* EMPTY slot returns COOP_ERR_LIMIT, changing nothing in either case;
\* otherwise it returns COOP_SUCCESS, the lowest-index EMPTY slot becomes NEW
\* at depth 0 and busy_n grows by one.  A HOLE slot counts as occupied.
C7_Schedule == [][C7_ScheduleStep]_vars

\* The pool was refused to a thread while one of its slots was a HOLE.
C7_Witness ==
    /\ ret.op = "schedule"
    /\ ret.val = "COOP_ERR_LIMIT"
    /\ pc = "thread"
    /\ \E i \in Slots : sched.thrds[i].state = "HOLE"

C8_IdleCall ==
    \A period \in Periods :
        ThreadIdle(period, FALSE) =>
            LET c == sched.cur_thrd
            IN  IF period > 0
                THEN /\ sched'.thrds[c].state = "IDLE"
                     /\ sched'.thrds[c].idle_to = TickAdd(tick, period)
                     /\ sched'.idle_n = sched.idle_n + 1
                ELSE /\ sched'.thrds[c].state = "RUN"
                     /\ sched'.thrds[c].idle_to = sched.thrds[c].idle_to
                     /\ sched'.idle_n = sched.idle_n

C8_IdleEnds ==
    \A i \in Slots :
        (sched.thrds[i].state = "IDLE" /\ sched'.thrds[i].state # "IDLE")
            => /\ sched'.thrds[i].state = "RUN"
               /\ IsTickOver(tick', sched.thrds[i].idle_to)

C8_ControlToReady ==
    (pc # "thread" /\ pc' = "thread")
        => /\ sched'.thrds[sched'.cur_thrd].state \in {"NEW", "RUN"}
           /\ sched.thrds[sched'.cur_thrd].state = "IDLE"
                => IsTickOver(tick', sched.thrds[sched'.cur_thrd].idle_to)

\* C8: coop_idle(period) with period > 0 puts the caller in IDLE with
\* idle_to = now + period and the caller is not resumed before the tick is
\* past idle_to; coop_idle(0) is a plain yield, the caller stays RUN.
C8_Idle == [][C8_IdleCall /\ C8_IdleEnds /\ C8_ControlToReady]_vars

\* A thread is back from coop_idle(period > 0), and time has passed since the
\* session began.
C8_Witness ==
    /\ ret.op = "idle"
    /\ pc = "thread"
    /\ sched.cur_thrd = ret.slot
    /\ tick # BootTick
    /\ IsTickOver(tick, sched.thrds[ret.slot].idle_to)

C9_WaitCall ==
    \A sem_id \in Sems, timeout \in Periods :
        ThreadWait(sem_id, timeout, FALSE) =>
            LET c == sched.cur_thrd
            IN  /\ sched'.thrds[c].state = "WAIT"
                /\ sched'.thrds[c].sem_id = sem_id
                /\ IF timeout > 0
                   THEN /\ sched'.thrds[c].inf = 0
                        /\ sched'.thrds[c].wait_to = TickAdd(tick, timeout)
                   ELSE sched'.thrds[c].inf = 1

C9_WaitEnds ==
    \A i \in Slots :
        (/\ sched.thrds[i].state = "WAIT"
         /\ sched'.thrds[i].state # "WAIT"
         /\ ret'.op \notin {"notify", "notify_all"})
            => /\ sched.thrds[i].inf = 0
               /\ IsTickOver(tick', sched.thrds[i].wait_to)
               /\ sched'.thrds[i].state = "RUN"
               /\ sched'.thrds[i].notif = 0

\* C9: coop_wait(sem, timeout) with timeout > 0 records wait_to = now +
\* timeout, and without a notification the waiter is made ready only once the
\* tick is past wait_to; coop_wait(sem, 0) never times out.
C9_WaitTimeout == [][C9_WaitCall /\ C9_WaitEnds]_vars

\* coop_wait() returned false on a timeout.
C9_Witness ==
    /\ ret.op = "wait"
    /\ ~ret.val
    /\ ret.wake = "timeout"
    /\ pc = "thread"
    /\ sched.thrds[ret.slot].inf = 0
    /\ IsTickOver(tick, sched.thrds[ret.slot].wait_to)

\* C10: coop_yield_after(limit) measures the limit relative to the caller's
\* switch_tick: it yields exactly when the tick is past switch_tick + limit.
C10_YieldAfterRelative ==
    ret.op = "yield_after" =>
        (ret.val <=> IsTickOver(tick, TickAdd(sched.thrds[sched.cur_thrd].switch_tick,
                                              ret.after)))

---------------------------------------------------------------------------
(* Idle across the wrap of the tick counter: the program starts WrapLead
   ticks before COOP_MAX_TICK; a thread calls coop_idle(WrapPeriod) or only
   yields, so that an idle slot is met both by the dispatcher and by
   _system_idle(); time is followed for WrapHorizon ticks. *)

WrapLead == 10

WrapPeriod == 20

WrapHorizon == 22

WrapStart == COOP_MAX_TICK - WrapLead

Since == TickSub(tick, WrapStart)

InitWrap ==
    /\ sched = ZeroSched
    /\ inited = FALSE
    /\ tick = WrapStart
    /\ pc = "main"
    /\ frames = << >>
    /\ min_idle = 0
    /\ thr = [i \in Slots |-> NoThr]
    /\ ret = NoRet
    /\ nsched = 0
    /\ nops = 0
    /\ trace = << >>

\* coop_idle_cb(min_idle) returns after d ticks; _system_idle() goes on.
IdleCbWrap(d) ==
    /\ pc = "idle_cb"
    /\ d <= min_idle
    /\ Since + d <= WrapHorizon
    /\ tick' = TickAdd(tick, d)
    /\ Service(sched, tick', FALSE)
    /\ UNCHANGED <<inited, nsched, nops>>

TickWrap ==
    /\ \/ pc = "thread"
       \/ pc = "sched" /\ \A i \in Slots : sched.thrds[i].state \notin {"NEW", "RUN"}
    /\ Since < WrapHorizon
    /\ tick' = TickAdd(tick, 1)
    /\ ret' = NoRet
    /\ UNCHANGED <<sched, inited, pc, frames, min_idle, thr, nsched, nops, trace>>

NextWrap ==
    \/ /\ nsched < 2
       /\ MainSchedule(TRUE)
    \/ ServiceStart
    \/ ServiceIter(FALSE)
    \/ \E d \in 0 .. WrapPeriod : IdleCbWrap(d)
    \/ ServiceReturn
    \/ ThreadIdle(WrapPeriod, FALSE)
    \/ ThreadIdle(0, FALSE)
    \/ ThreadReturn
    \/ TickWrap

SpecWrap == InitWrap /\ [][NextWrap]_vars

\* The tick at which WrapPeriod ticks have passed since WrapStart.
WrapWake == TickAdd(WrapStart, WrapPeriod)

\* The slots idling since the call of coop_idle(WrapPeriod) at WrapStart.
WrapIdlers == {i \in Slots : sched.thrds[i].state = "IDLE"
                             /\ sched.thrds[i].idle_to = WrapWake}

C11_Call ==
    (tick = WrapStart /\ ThreadIdle(WrapPeriod, FALSE))
        => /\ sched'.thrds[sched.cur_thrd].state = "IDLE"
           /\ sched'.thrds[sched.cur_thrd].idle_to = WrapWake

C11_NotEarlier ==
    \A i \in WrapIdlers :
        sched'.thrds[i].state # "IDLE"
            => TickSub(tick', WrapStart) >= WrapPeriod

C11_WokenThen ==
    \A i \in WrapIdlers :
        (/\ pc = "sched"
         /\ tick' = tick
         /\ sched.cur_thrd # i
         /\ sched'.cur_thrd = i
         /\ Since >= WrapPeriod)
            => sched'.thrds[i].state = "RUN" /\ pc' = "thread"

\* C11 (amended): a thread that calls coop_idle(20) when the tick counter
\* reads COOP_MAX_TICK - 10 stays IDLE while the counter wraps and is woken
\* once the wrapped counter reads 9, the tick 20 ticks after the call: not
\* before the wrap, not at an earlier tick, and at the first dispatch of its
\* slot from then on.
C11_WrapSafeIdle ==
    /\ WrapWake = WrapPeriod - WrapLead - 1
    /\ [][C11_Call /\ C11_NotEarlier /\ C11_WokenThen]_vars

\* The thread is back from coop_idle(20) at the wrapped tick 9.
C11_Witness ==
    /\ ret.op = "idle"
    /\ pc = "thread"
    /\ tick = WrapWake
    /\ tick < WrapStart
    /\ sched.thrds[ret.slot].idle_to = WrapWake

\* C11 as stated: the thread is not woken before the wrapped counter reads
\* WrapPeriod - WrapLead = 10.
C11_WokenAtLead ==
    [][\A i \in WrapIdlers :
          sched'.thrds[i].state # "IDLE"
              => IsTickOver(tick', WrapPeriod - WrapLead)]_vars

\* The threads of the session are all alive: none has returned.
AllAlive ==
    /\ nsched >= 1
    /\ sched.busy_n = nsched
    /\ sched.hole_n = 0

\* The moment a thread has yielded: the dispatcher is about to select a slot
\* and every run so far has ended with a yield.
Yielded == pc = "sched" /\ AllAlive /\ trace # << >>

Runs(i) == Count(trace, i)

Live == {i \in Slots : sched.thrds[i].state # "EMPTY"}

CeilDiv(k, n) == (k + n - 1) \div n

\* C12 (amended): with `active' always-ready threads that only yield, at the
\* moment a thread has performed its K-th yield every other thread has run
\* K - 1 or K times; in terms of the K' yields performed by all threads
\* together, every thread has run floor(K'/active) or ceil(K'/active) times.
C12_FairShare ==
    Yielded =>
        LET x == trace[Len(trace)]
        IN  /\ \A j \in Live \ {x} : Runs(j) \in {Runs(x) - 1, Runs(x)}
            /\ \A j \in Live :
                 Runs(j) \in {Len(trace) \div nsched, CeilDiv(Len(trace), nsched)}

\* Three threads, seven yields in all: the last to yield has run three times.
C12_Witness ==
    /\ Yielded
    /\ nsched = CONFIG_MAX_THREADS
    /\ Len(trace) = 2 * CONFIG_MAX_THREADS + 1
    /\ Runs(trace[Len(trace)]) = 3

\* C12 as stated: at the moment a thread has performed K yields every other
\* thread has run floor(K/active) or ceil(K/active) times.
C12_ShareOfOwnYields ==
    Yielded =>
        LET x == trace[Len(trace)]
        IN  \A j \in Live \ {x} :
              Runs(j) \in {Runs(x) \div nsched, CeilDiv(Runs(x), nsched)}

InState(S) == {i \in Slots : sched.thrds[i].state \in S}

\* The service loop is about to select a slot.
AtIteration == pc = "sched"

\* C13: at every scheduler iteration busy_n is the number of slots that are
\* not EMPTY, hole_n the number of HOLE slots and idle_n the number of IDLE
\* slots, whatever the schedule, yield, idle, wait, notify, promotion, hole
\* termination and unwind steps that came before.
C13_Counters ==
    AtIteration =>
        /\ sched.busy_n = Cardinality(Slots \ InState({"EMPTY"}))
        /\ sched.hole_n = Cardinality(InState({"HOLE"}))
        /\ sched.idle_n = Cardinality(InState({"IDLE"}))

\* An iteration with a hole, an idle thread and nothing else in the pool.
C13_Witness ==
    /\ AtIteration
    /\ sched.hole_n = 1
    /\ sched.idle_n = 1
    /\ sched.busy_n = 2
    /\ InState({"HOLE"}) # {}
    /\ InState({"IDLE"}) # {}

---------------------------------------------------------------------------
(* Threads that carve and release the main stack: a thread yields, waits
   for ever on semaphore 0, notifies it, schedules a thread or returns; each
   thread suspends itself at most RRYields times, so that stacks as deep as
   the pool, holes and unwinds over several holes occur. *)

NextStack ==
    \/ MainSchedule(TRUE)
    \/ ServiceStart
    \/ ServiceIter(FALSE)
    \/ ServiceReturn
    \/ ThreadSchedule(TRUE)
    \/ ThreadIdle(0, TRUE)
    \/ ThreadWait(0, 0, TRUE)
    \/ ThreadNotify(0)
    \/ ThreadReturn

SpecStack == Init /\ [][NextStack]_vars

\* The slots whose thread has a frame on the main stack.
OnStack == InState({"RUN", "IDLE", "WAIT", "HOLE"})

DepthOf(i) == sched.thrds[i].depth

\* C14: at every scheduler iteration the depths of the RUN, IDLE, WAIT and
\* HOLE slots are pairwise distinct and are exactly 1 .. sched.depth, and every
\* NEW slot has depth 0.
C14_DepthPermutation ==
    AtIteration =>
        /\ \A i, j \in OnStack : i # j => DepthOf(i) # DepthOf(j)
        /\ {DepthOf(i) : i \in OnStack} = 1 .. sched.depth
        /\ \A i \in InState({"NEW"}) : DepthOf(i) = 0

\* An iteration with the stack as deep as the pool and a hole in its middle.
C14_Witness ==
    /\ AtIteration
    /\ sched.depth = CONFIG_MAX_THREADS
    /\ \E i \in InState({"HOLE"}) : DepthOf(i) = 2
    /\ \E i \in InState({"WAIT"}) : DepthOf(i) = 1
    /\ \E i \in InState({"RUN"}) : DepthOf(i) = CONFIG_MAX_THREADS

\* The entry routine of the running thread returns while the thread is the
\* topmost one.
TopReturn ==
    /\ ret'.op = "return"
    /\ DepthOf(sched.cur_thrd) = sched.depth

\* The maximum depth over the RUN, IDLE and WAIT slots other than the
\* terminating one, 0 if there is none.
DepthLeft ==
    SetMax({DepthOf(i) : i \in InState({"RUN", "IDLE", "WAIT"}) \ {sched.cur_thrd}})

\* The slots a topmost termination is to free.
ToFree ==
    {sched.cur_thrd} \cup {i \in InState({"HOLE"}) : DepthOf(i) > DepthLeft}

C15_TopReturnStep ==
    TopReturn =>
        /\ \A i \in Slots :
             sched'.thrds[i].state =
                 IF i \in ToFree THEN "EMPTY" ELSE sched.thrds[i].state
        /\ \A i \in Slots : sched'.thrds[i].depth = DepthOf(i)
        /\ ret'.freed = ToFree
        /\ sched'.busy_n = sched.busy_n - Cardinality(ToFree)
        /\ sched'.hole_n = sched.hole_n - Cardinality(ToFree \ {sched.cur_thrd})
        /\ sched'.idle_n = sched.idle_n
        /\ sched'.depth = DepthLeft
        /\ \A i \in InState({"HOLE"}) :
             DepthOf(i) <= DepthLeft => sched'.thrds[i].state = "HOLE"

\* C15: when the entry routine of the topmost slot returns, the slots set to
\* EMPTY are exactly the terminating slot and every HOLE deeper than d', the
\* maximum depth left among the RUN/IDLE/WAIT slots (0 if none); busy_n
\* decreases by the number of slots freed, hole_n by the number of holes
\* freed, sched.depth becomes d' and every HOLE with depth <= d' stays HOLE.
\* With T1, T2, T3 at depths 1, 2, 3, T2 returning and then T3 returning frees
\* T3 and the hole T2 in one step, leaving sched.depth = 1 and hole_n = 0.
C15_TopmostTermination == [][C15_TopReturnStep]_vars

\* T3 (depth 3) has returned above the hole T2 (depth 2) and the live T1
\* (depth 1): both were freed in this step.
C15_Witness ==
    /\ ret.op = "return"
    /\ Cardinality(ret.freed) = 2
    /\ DepthOf(ret.slot) = 3
    /\ \E h \in ret.freed : DepthOf(h) = 2
    /\ sched.depth = 1
    /\ sched.hole_n = 0
    /\ sched.busy_n = 1

\* The freed slots at the smallest depth a topmost termination frees.
UnwindTargets == {i \in ToFree : DepthOf(i) = DepthLeft + 1}

C16_UnwindStep ==
    TopReturn =>
        /\ Cardinality(UnwindTargets) = 1
        /\ \A i \in ToFree : DepthOf(i) >= DepthLeft + 1
        /\ {DepthOf(i) : i \in ToFree} = (DepthLeft + 1) .. sched.depth
        /\ \A u \in UnwindTargets :
             /\ (\E h \in InState({"HOLE"}) : DepthOf(h) = DepthLeft + 1)
                    => u \in InState({"HOLE"})
             /\ (~\E h \in InState({"HOLE"}) : DepthOf(h) = DepthLeft + 1)
                    => u = sched.cur_thrd
             /\ sched.thrds[u].entry_ctx \in 1 .. Len(frames)
             /\ frames' = SubSeq(frames, 1, sched.thrds[u].entry_ctx)
        /\ pc' = "sched"
        /\ Len(frames') = sched'.depth + 1

\* C16: on a topmost termination the jump goes to the entry context of the
\* freed slot with the smallest depth, the one at depth d' + 1 (d' the new
\* sched.depth): the hole at that depth if there is one, else the terminating
\* slot; exactly one freed slot has that depth, the freed depths are the top
\* d' + 1 .. sched.depth of the stack, and the main stack is cut back to the
\* invocation that entered that slot, just above the new top.
C16_UnwindTarget == [][C16_UnwindStep]_vars

\* The topmost thread has returned above two holes: the stack was unwound to
\* the hole at depth 1, back to the outermost invocation.
C16_Witness ==
    /\ ret.op = "return"
    /\ pc = "sched"
    /\ Cardinality(ret.freed) = 3
    /\ \E h \in ret.freed \ {ret.slot} : DepthOf(h) = 1
    /\ DepthOf(ret.slot) = 3
    /\ sched.depth = 0
    /\ Len(frames) = 1

\* The entry routine of the running thread returns while a deeper thread is
\* on the main stack.
HoleReturn ==
    /\ ret'.op = "return"
    /\ DepthOf(sched.cur_thrd) < sched.depth

C17_HoleStep ==
    HoleReturn =>
        /\ sched'.thrds[sched.cur_thrd].state = "HOLE"
        /\ sched'.thrds[sched.cur_thrd].depth = DepthOf(sched.cur_thrd)
        /\ sched'.hole_n = sched.hole_n + 1
        /\ sched'.busy_n = sched.busy_n
        /\ sched'.idle_n = sched.idle_n
        /\ sched'.depth = sched.depth
        /\ \A i \in Slots \ {sched.cur_thrd} : sched'.thrds[i] = sched.thrds[i]
        /\ ret'.freed = {}
        /\ pc' = "sched"
        /\ frames' = frames
        /\ sched'.cur_thrd = sched.cur_thrd

C17_HoleStays ==
    \A i \in InState({"HOLE"}) : sched'.thrds[i].state \in {"HOLE", "EMPTY"}

C17_HoleNotRun ==
    (pc # "thread" /\ pc' = "thread")
        => sched.thrds[sched'.cur_thrd].state \notin {"HOLE", "EMPTY"}

\* C17: when the entry routine of a thread returns while its depth is less
\* than sched.depth, its slot becomes HOLE and hole_n grows by one; busy_n,
\* sched.depth and every other slot are unchanged and no slot is freed;
\* control is back in the dispatcher, which goes on with the next slot; a HOLE
\* slot is never given control and can only become EMPTY.
C17_HoleTermination == [][C17_HoleStep /\ C17_HoleStays /\ C17_HoleNotRun]_vars

\* T2 (depth 2) has returned between T1 and T3: a hole, hole_n = 1 and
\* sched.depth = 3.
C17_Witness ==
    /\ ret.op = "return"
    /\ ret.freed = {}
    /\ sched.thrds[ret.slot].state = "HOLE"
    /\ DepthOf(ret.slot) = 2
    /\ sched.hole_n = 1
    /\ sched.depth = 3
    /\ sched.busy_n = 3

Started == InState({"RUN", "IDLE", "WAIT"})

\* C18: a hole is always buried: at every scheduler iteration each HOLE slot
\* is less deep than some RUN, IDLE or WAIT slot; whenever sched.depth > 0 the
\* slot at depth sched.depth is a started thread, never a HOLE; so hole_n > 0
\* implies busy_n > hole_n.
C18_HolesBuried ==
    AtIteration =>
        /\ \A h \in InState({"HOLE"}) : \E i \in Started : DepthOf(h) < DepthOf(i)
        /\ sched.depth > 0 => /\ \E i \in Started : DepthOf(i) = sched.depth
                              /\ \A h \in InState({"HOLE"}) : DepthOf(h) # sched.depth
        /\ sched.hole_n > 0 => sched.busy_n > sched.hole_n

\* An iteration with two holes under the only live thread.
C18_Witness ==
    /\ AtIteration
    /\ sched.hole_n = 2
    /\ Cardinality(InState({"HOLE"})) = 2
    /\ \E i \in Started : DepthOf(i) = CONFIG_MAX_THREADS

Idlers == InState({"IDLE"})

\* The IDLE slots whose idle_to is past at tick t.
IdlePast(t) == {i \in Idlers : IsTickOver(t, sched.thrds[i].idle_to)}

\* coop_idle_cb(min_idle) is being invoked; tick is the last sample.
C19_AtIdleCb ==
    pc = "idle_cb" =>
        /\ Idlers # {}
        /\ InState({"NEW", "RUN", "WAIT"}) = {}
        /\ IdlePast(tick) = {}
        /\ \E i \in Idlers : min_idle = TickSub(sched.thrds[i].idle_to, tick)
        /\ \A i \in Idlers : min_idle <= TickSub(sched.thrds[i].idle_to, tick)

\* An iteration of the service loop that finds every live thread IDLE and
\* one of them past its idle_to promotes it and does not call coop_idle_cb().
C19_PromotedAtEntry ==
    (/\ pc = "sched"
     /\ tick' = tick
     /\ sched.busy_n > 0
     /\ sched' # sched
     /\ InState({"NEW", "RUN", "WAIT"}) = {}
     /\ IdlePast(tick) # {})
        => /\ pc' # "idle_cb"
           /\ \A i \in IdlePast(tick) : sched'.thrds[i].state = "RUN"

\* When coop_idle_cb() returns, the IDLE slots past their idle_to become RUN.
C19_AfterIdleCb ==
    pc = "idle_cb"
        => \A i \in IdlePast(tick') : sched'.thrds[i].state = "RUN"

\* C19: whenever coop_idle_cb(t) is invoked at least one slot is IDLE, every
\* slot that is neither EMPTY nor HOLE is IDLE, no IDLE slot was past its
\* idle_to at the last tick sample, and t is the minimum over the IDLE slots
\* of idle_to minus that sample, computed with wrap-around; two threads that
\* idle for the same period from the same tick cause coop_idle_cb(period),
\* after which both are RUN; a slot already past its idle_to is promoted
\* without a call of coop_idle_cb().
C19_SystemIdle ==
    /\ [](C19_AtIdleCb)
    /\ [][C19_PromotedAtEntry /\ C19_AfterIdleCb]_vars

\* Two threads called coop_idle(WrapPeriod) at the same tick, before the
\* wrap: coop_idle_cb(WrapPeriod) is being invoked.
C19_Witness ==
    /\ pc = "idle_cb"
    /\ Cardinality(Idlers) = 2
    /\ min_idle = WrapPeriod
    /\ \A i \in Idlers : sched.thrds[i].idle_to = TickAdd(tick, WrapPeriod)
    /\ tick > TickAdd(tick, WrapPeriod)

\* The loop condition of coop_sched_service() is false: only the outermost
\* invocation is on the main stack, and no thread frame is.
C20_DrainedOutermost ==
    (pc = "sched" /\ sched.busy_n = 0)
        => /\ Len(frames) = 1
           /\ sched.depth = 0
           /\ \A i \in Slots : sched.thrds[i].state = "EMPTY"

\* The termination that frees the last thread lands in the outermost invocation.
C20_FinalUnwind ==
    (ThreadReturn /\ sched'.busy_n = 0)
        => pc' = "sched" /\ Len(frames') = 1

\* _sched_init(true) and the return are those of the outermost invocation.
C20_Reset ==
    ServiceReturn => Len(frames) = 1 /\ sched.depth = 0 /\ pc' = "done"

\* C20: the coop_sched_service() call made by a thread's first yield never
\* returns: busy_n = 0 is only seen by the outermost invocation, the unwind
\* that frees the last thread lands in that invocation, and _sched_init(true)
\* never runs while a thread frame is on the main stack.
C20_RecursiveServiceNeverReturns ==
    /\ [](C20_DrainedOutermost)
    /\ [][C20_FinalUnwind /\ C20_Reset]_vars

\* The last thread returned at the top of a stack that held two other frames,
\* and the loop of the outermost invocation sees busy_n = 0.
C20_Witness ==
    /\ pc = "sched"
    /\ sched.busy_n = 0
    /\ ret.op = "return"
    /\ Cardinality(ret.freed) = CONFIG_MAX_THREADS
    /\ Len(frames) = 1

\* A thread resumed by case RUN has control: sched.exe_ctx is the context of
\* the topmost invocation.
C21_ExeCtxIsTop ==
    (pc = "thread" /\ sched.thrds[sched.cur_thrd].state # "NEW")
        => sched.exe_ctx = Len(frames)

\* While a thread has control neither sched.exe_ctx nor the main stack changes.
C21_KeptWhileRunning ==
    (pc = "thread" /\ pc' = "thread")
        => sched'.exe_ctx = sched.exe_ctx /\ frames' = frames

\* Case RUN saves sched.exe_ctx in the running invocation and jumps to a
\* thread whose frame is on the main stack.
C21_Dispatch ==
    (/\ pc \in {"sched", "idle_cb"}
     /\ pc' = "thread"
     /\ sched'.thrds[sched'.cur_thrd].state = "RUN")
        => LET c == sched'.cur_thrd
           IN  /\ frames' = frames
               /\ sched'.exe_ctx = Len(frames)
               /\ sched'.thrds[c].depth \in 1 .. sched'.depth
               /\ sched'.thrds[c].exe_ctx \in 1 .. Len(frames)
               /\ sched'.thrds[c].exe_ctx = sched'.thrds[c].depth

\* longjmp(sched.exe_ctx) of a regular yield or of a termination as a hole.
C21_BackToLoop ==
    (/\ pc = "thread"
     /\ pc' # "thread"
     /\ sched.thrds[sched.cur_thrd].state # "NEW"
     /\ sched'.thrds[sched.cur_thrd].state # "EMPTY")
        => /\ pc' = "sched"
           /\ frames' = frames
           /\ sched.exe_ctx = Len(frames)

\* longjmp(entry_ctx) of an unwind: the target is a live invocation, the top
\* of the main stack after the jump.
C21_Unwind ==
    (/\ pc = "thread"
     /\ pc' # "thread"
     /\ sched'.thrds[sched.cur_thrd].state = "EMPTY")
        => /\ pc' = "sched"
           /\ Len(frames') \in 1 .. Len(frames)
           /\ frames' = SubSeq(frames, 1, Len(frames'))
           /\ Len(frames') = sched'.depth + 1

\* C21: no longjmp lands in a reclaimed frame: a yielding or hole-terminating
\* thread jumps to the sched.exe_ctx saved by the invocation that resumed it,
\* which is the topmost one; the dispatcher jumps to the run context of a
\* slot whose depth is within 1..sched.depth; the entry context of an unwind
\* was saved by an invocation at or below the new top of the main stack.
C21_NoJumpIntoReclaimedFrame ==
    /\ [](pc # "fault" /\ C21_ExeCtxIsTop)
    /\ [][/\ C21_KeptWhileRunning
          /\ C21_Dispatch
          /\ C21_BackToLoop
          /\ C21_Unwind]_vars

\* The thread at the bottom of a full stack was resumed by the topmost
\* invocation, returned, and is back in the loop of that invocation as a hole.
C21_Witness ==
    /\ pc = "sched"
    /\ ret.op = "return"
    /\ sched.thrds[ret.slot].state = "HOLE"
    /\ sched.thrds[ret.slot].depth = 1
    /\ Len(frames) = CONFIG_MAX_THREADS + 1
    /\ sched.exe_ctx = Len(frames)

=============================================================================
